---- MODULE Spec2Model ----
(***************************************************************************)
(* Model of the MIDI decoder of genshin-impact-midi-player                 *)
(* (src/midi_converter.py, class MidiFile): the signature scanner, the     *)
(* header and track chunk readers, the track event loop with its meta,     *)
(* system and voice handlers, and the note consolidation of process_notes; *)
(* and of the player (src/play_song.py): the playback thread play_notes and *)
(* the key callbacks on_del_press, rewind and skip of the keyboard hook.     *)
(*                                                                         *)
(* Bytes are integers 0..255, a symbol is the code point of a character of *)
(* VIRTUAL_PIANO_SCALE, a symbol string is a sequence of code points, and  *)
(* a note time (the float delta_time / division) is kept as the pair       *)
(* <<delta_time, division>> and compared by its rational value.            *)
(***************************************************************************)
EXTENDS Integers, Sequences, FiniteSets, TLC

\* ------------------------------------------------------------------------
\* Bounds of the model
\* ------------------------------------------------------------------------

\* number of events drawn freely for the first track chunk of an input file
MaxEvents == 2

\* raw notes of an input of the consolidation specification
MaxNotes == 3

\* largest tick count of a raw note of the consolidation specification
MaxTick == 1

\* stray bytes in front of the first chunk of an input file
MaxStray == 2

\* delta-times tried above each power of 128
MaxVlqOffset == 2

\* chords of the longest song the player is given
MaxSong == 11

\* ------------------------------------------------------------------------
\* Program constants
\* ------------------------------------------------------------------------

DEFAULT_TEMPO == 120

\* the number of chords rewind and skip move stored_index by
JUMP == 10

\* the division_type that line 142 stores for a division field with bit 15
\* clear: (div & 0x8000) >> 16 of such a field
TicksPerQuarterNote == 0

\* VIRTUAL_PIANO_SCALE, as code points
\* "zZxXcvVbBnNmaAsSdfFgGhHjqQwWerRtTyYuqQwWerRtTyYuqQwWerRtTyYu))"
VIRTUAL_PIANO_SCALE ==
    <<122, 90, 120, 88, 99, 118, 86, 98, 66, 110, 78, 109,
      97, 65, 115, 83, 100, 102, 70, 103, 71, 104, 72, 106,
      113, 81, 119, 87, 101, 114, 82, 116, 84, 121, 89, 117,
      113, 81, 119, 87, 101, 114, 82, 116, 84, 121, 89, 117,
      113, 81, 119, 87, 101, 114, 82, 116, 84, 121, 89, 117,
      41, 41>>

\* start_sequence: MThd, MTrk, FF
start_sequence ==
    << <<77, 84, 104, 100>>, <<77, 84, 114, 107>>, <<255>> >>

\* the meta-event types of the text branch of read_midi_meta_event
TextTypes == {1, 2, 3, 4, 5, 6, 7, 8, 9, 10, 12}

\* the voice classes that take two data bytes in read_voice_event
TwoByteClasses == {8, 9, 10, 11, 13, 14}

\* ------------------------------------------------------------------------
\* Pure functions of the decoder
\* ------------------------------------------------------------------------

\* bytes[i] of Python (0-based) on the 1-based sequence b
At(b, i) == b[i + 1]

InRange(b, i) == i >= 0 /\ i < Len(b)

\* read_length: the VLQ starting at cursor i. ok is FALSE when the read runs
\* off the buffer (IndexError); next is the cursor after the last byte read.
RECURSIVE VlqFrom(_, _, _)
VlqFrom(b, i, acc) ==
    IF ~InRange(b, i)
    THEN [ok |-> FALSE, val |-> acc, next |-> i]
    ELSE IF At(b, i) >= 128
         THEN VlqFrom(b, i + 1, acc * 128 + (At(b, i) % 128))
         ELSE [ok |-> TRUE, val |-> acc * 128 + (At(b, i) % 128), next |-> i + 1]

\* mutant: the continuation bit is not masked off the bytes
RECURSIVE VlqUnmasked(_, _, _)
VlqUnmasked(b, i, acc) ==
    IF ~InRange(b, i)
    THEN [ok |-> FALSE, val |-> acc, next |-> i]
    ELSE IF At(b, i) >= 128
         THEN VlqUnmasked(b, i + 1, acc * 128 + At(b, i))
         ELSE [ok |-> TRUE, val |-> acc * 128 + At(b, i), next |-> i + 1]

read_length_unmasked(b, i) == VlqUnmasked(b, i, 0)

read_length(b, i) == VlqFrom(b, i, 0)

\* get_int: big-endian value of the slice bytes[i : i + size]; a slice never
\* raises, it is cut at the end of the buffer
RECURSIVE IntFrom(_, _, _, _)
IntFrom(b, i, n, acc) ==
    IF n = 0 \/ ~InRange(b, i)
    THEN acc
    ELSE IntFrom(b, i + 1, n - 1, acc * 256 + At(b, i))

get_int(b, i, size) == IntFrom(b, i, size, 0)

\* the cursor after get_int(size): self.itr += size, whatever was read
get_int_next(b, i, size) == i + size

\* round(us * 0.00024): Python rounds the float to the nearest integer, ties
\* to even; us * 0.00024 is us * 3 / 12500 (the float product rounds as the
\* exact quotient does for every 24-bit us)
RoundHalfEven(num, den) ==
    LET q == num \div den
        r == num % den
    IN  IF 2 * r > den THEN q + 1
        ELSE IF 2 * r < den THEN q
        ELSE IF q % 2 = 0 THEN q ELSE q + 1

TempoOf(us) == RoundHalfEven(us * 3, 12500)

\* map_key_to_piano
\* mutant: an index equal to the length of the scale is not folded
RECURSIVE FoldDownAbove(_)
FoldDownAbove(k) ==
    IF k > Len(VIRTUAL_PIANO_SCALE) THEN FoldDownAbove(k - 12) ELSE k

RECURSIVE FoldDown(_)
FoldDown(k) == IF k >= Len(VIRTUAL_PIANO_SCALE) THEN FoldDown(k - 12) ELSE k

RECURSIVE FoldUp(_)
FoldUp(k) == IF k < 0 THEN FoldUp(k + 12) ELSE k

\* mutant: the shift by three octaves is left out
map_key_unshifted(key) == FoldUp(FoldDown(key))

map_key_to_piano(key) == FoldUp(FoldDown(key - 36))

\* VIRTUAL_PIANO_SCALE[mapped_key]
SymbolOf(key) == VIRTUAL_PIANO_SCALE[map_key_to_piano(key) + 1]

\* ------------------------------------------------------------------------
\* Note times and the order of notes.sort()
\* ------------------------------------------------------------------------

Sign(n) == IF n < 0 THEN -1 ELSE 1
Abs(n) == IF n < 0 THEN -n ELSE n

\* t is <<delta_time, division>>, division # 0; its value is their quotient
TimeNum(t) == t[1] * Sign(t[2])
TimeDen(t) == Abs(t[2])

TimeEq(a, b) == TimeNum(a) * TimeDen(b) = TimeNum(b) * TimeDen(a)
TimeLess(a, b) == TimeNum(a) * TimeDen(b) < TimeNum(b) * TimeDen(a)

\* Python's < on strings: lexicographic on code points
RECURSIVE StrLess(_, _)
StrLess(a, b) ==
    IF b = <<>> THEN FALSE
    ELSE IF a = <<>> THEN TRUE
    ELSE IF Head(a) # Head(b) THEN Head(a) < Head(b)
    ELSE StrLess(Tail(a), Tail(b))

\* Python's < on the lists [time, symbols]
NoteLess(x, y) ==
    TimeLess(x.t, y.t) \/ (TimeEq(x.t, y.t) /\ StrLess(x.s, y.s))

\* notes.sort(): a stable ascending sort by NoteLess
RECURSIVE InsertNote(_, _)
InsertNote(sorted, x) ==
    IF sorted = <<>> THEN <<x>>
    ELSE IF NoteLess(x, Head(sorted))
         THEN <<x>> \o sorted
         ELSE <<Head(sorted)>> \o InsertNote(Tail(sorted), x)

RECURSIVE SortNotes(_)
SortNotes(ns) ==
    IF ns = <<>> THEN <<>>
    ELSE InsertNote(SortNotes(SubSeq(ns, 1, Len(ns) - 1)), ns[Len(ns)])

\* the merge loop of process_notes; i is Python's index i
\*   notes[i][1] += notes[i - 1][1]; notes.pop(i - 1)
\* mutant: the earlier note's symbols are put first
MergeSymbolsForward(later, earlier) == earlier \o later

MergeSymbols(later, earlier) == later \o earlier

\* mutant: the index steps on after a merge, as it does after no merge
RECURSIVE MergeLoopSkipping(_, _)
MergeLoopSkipping(ns, i) ==
    IF i < Len(ns)
    THEN IF TimeEq(ns[i].t, ns[i + 1].t)
         THEN MergeLoopSkipping(
                  SubSeq(ns, 1, i - 1)
                  \o <<[t |-> ns[i + 1].t,
                        s |-> MergeSymbols(ns[i + 1].s, ns[i].s)]>>
                  \o SubSeq(ns, i + 2, Len(ns)),
                  i + 1)
         ELSE MergeLoopSkipping(ns, i + 1)
    ELSE ns

RECURSIVE MergeLoop(_, _)
MergeLoop(ns, i) ==
    IF i < Len(ns)
    THEN IF TimeEq(ns[i].t, ns[i + 1].t)
         THEN MergeLoop(
                  SubSeq(ns, 1, i - 1)
                  \o <<[t |-> ns[i + 1].t,
                        s |-> MergeSymbols(ns[i + 1].s, ns[i].s)]>>
                  \o SubSeq(ns, i + 2, Len(ns)),
                  i)
         ELSE MergeLoop(ns, i + 1)
    ELSE ns

\* "".join(sorted(set(s), key=s.index)): the distinct characters of s in the
\* order of their first occurrence
\* mutant: repeated symbols are kept
KeepAll(s) == s

RECURSIVE Dedup(_)
Dedup(s) ==
    IF s = <<>> THEN <<>>
    ELSE LET init == Dedup(SubSeq(s, 1, Len(s) - 1))
             c == s[Len(s)]
         IN  IF \E k \in 1..Len(init) : init[k] = c THEN init
             ELSE Append(init, c)

\* lines 258-269 of process_notes
Consolidate(ns) ==
    LET merged == MergeLoop(SortNotes(ns), 1)
    IN  [k \in 1..Len(merged) |-> [t |-> merged[k].t, s |-> Dedup(merged[k].s)]]

\* ------------------------------------------------------------------------
\* Input files
\* ------------------------------------------------------------------------

U16(n) == <<(n \div 256) % 256, n % 256>>
U32(n) == <<(n \div 16777216) % 256, (n \div 65536) % 256,
            (n \div 256) % 256, n % 256>>

\* a header chunk: signature, length 6, format, track count, division
HeaderChunk(fmt, ntracks, div) ==
    start_sequence[1] \o U32(6) \o U16(fmt) \o U16(ntracks) \o U16(div)

\* a track chunk: signature, declared length, event stream
TrackChunk(declared, payload) ==
    start_sequence[2] \o U32(declared) \o payload

\* events, each with its delta-time in front
EvTempo500 == <<0, 255, 81, 3, 7, 161, 32>>      \* Set Tempo 500000
EvTempo1000 == <<0, 255, 81, 3, 15, 66, 64>>     \* Set Tempo 1000000
EvNoteOn == <<0, 144, 60, 100>>                  \* note-on ch 0, key 60
EvNoteOff == <<131, 96, 128, 60, 0>>             \* delta 480, note-off key 60
EvRunOn == <<0, 62, 100>>                        \* data bytes only, velocity 100
EvRunZero == <<0, 62, 0>>                        \* data bytes only, velocity 0
EvEndOfTrack == <<0, 255, 47, 0>>                \* End of Track
EvText == <<0, 255, 3, 2, 97, 98>>               \* track name "ab"
EvTimeSig == <<0, 255, 88, 4, 4, 2, 24, 8>>      \* time signature
EvSysEx == <<0, 240, 0>>                         \* system exclusive, empty
EvProgram == <<0, 192, 5>>                       \* instrument change

\* the end-to-end file: format 0, 1 track, 480 ticks per quarter
MinimalPayload == EvTempo500 \o EvNoteOn \o EvNoteOff \o EvEndOfTrack
MinimalFile ==
    HeaderChunk(0, 1, 480) \o TrackChunk(Len(MinimalPayload), MinimalPayload)

CoreEvents == {EvNoteOn, EvRunOn, EvRunZero, EvNoteOff, EvTempo1000, EvEndOfTrack}
TailEvents == {<<>>, EvText, EvTimeSig, EvSysEx, EvProgram}

RECURSIVE EventStreams(_)
EventStreams(n) ==
    IF n = 0 THEN {<<>>}
    ELSE LET shorter == EventStreams(n - 1)
         IN  shorter \cup {p \o e : p \in shorter, e \in CoreEvents}

Payloads == {p \o e : p \in EventStreams(MaxEvents), e \in TailEvents}

\* no header chunk (division stays -1), or the header of the end-to-end file
Headers == {<<>>, HeaderChunk(0, 1, 480)}

\* a second track chunk after the first
SecondTracks == {TrackChunk(3, EvRunOn), TrackChunk(8, EvNoteOn \o EvEndOfTrack)}

Max0(n) == IF n < 0 THEN 0 ELSE n

\* a header chunk alone, the division field ranging over both kinds
DivisionFields == {0, 1, 96, 480, 32767, 32768, 59176, 65535}
HeaderFiles == {HeaderChunk(1, 2, div) : div \in DivisionFields}

\* one note-on for each 7-bit key
KeyFiles ==
    {HeaderChunk(0, 1, 480) \o TrackChunk(4, <<0, 144, key, 100>>) : key \in 0..127}

\* the standard encoding of n as a variable-length quantity: 7 bits a byte,
\* most significant first, the high bit set on every byte but the last
RECURSIVE VlqHigh(_)
VlqHigh(n) == IF n = 0 THEN <<>> ELSE Append(VlqHigh(n \div 128), 128 + (n % 128))

VlqEncode(n) == Append(VlqHigh(n \div 128), n % 128)

\* delta-times around the lengths of 1, 2, 3 and 4 bytes, and the largest
VlqValues ==
    {b + k : b \in {0, 127, 16383, 2097151}, k \in 0..MaxVlqOffset}
    \cup {268435455}

\* a track whose first delta-time is n, followed by a note-on
VlqFiles ==
    {LET p == VlqEncode(n) \o <<144, 60, 100>> IN TrackChunk(Len(p), p) :
        n \in VlqValues}

\* stray bytes, among them the first bytes of a signature, before a chunk
StrayBytes == {0, 77, 84}

RECURSIVE StrayPrefixes(_)
StrayPrefixes(n) ==
    IF n = 0 THEN {<<>>}
    ELSE LET shorter == StrayPrefixes(n - 1)
         IN  shorter \cup {Append(p, b) : p \in shorter, b \in StrayBytes}

StrayFiles ==
    {p \o c : p \in StrayPrefixes(MaxStray),
              c \in {HeaderChunk(0, 1, 480) \o <<0>>, TrackChunk(4, EvNoteOn)}}

\* one event, then End of Track or a lone delta-time, in a chunk declared at
\* its length or at length 0, a second chunk after it or not
LoopPayloads ==
    {e \o t : e \in {EvNoteOn, EvSysEx}, t \in {EvEndOfTrack, <<0>>}}

LoopFiles ==
    {HeaderChunk(0, 1, 480) \o TrackChunk(IF whole THEN Len(p) ELSE 0, p) \o t :
        p \in LoopPayloads, whole \in BOOLEAN,
        t \in {<<>>, TrackChunk(4, EvNoteOn)}}

Files ==
    {MinimalFile}
    \cup HeaderFiles \cup KeyFiles \cup VlqFiles \cup StrayFiles \cup LoopFiles
    \cup {h \o TrackChunk(Max0(Len(p) + d), p) :
            h \in Headers, p \in Payloads, d \in {-1, 0, 1}}
    \cup {LET f == h \o TrackChunk(Len(p), p) IN SubSeq(f, 1, Len(f) - 1) :
            h \in Headers, p \in Payloads}
    \cup {h \o TrackChunk(Len(p), p) \o t :
            h \in Headers, p \in Payloads, t \in SecondTracks}

\* raw note lists of the consolidation specification
NoteKeys == {36, 37, 60}

RawNotes(div) ==
    {[t |-> <<k, div>>, s |-> <<SymbolOf(key)>>] : k \in 0..MaxTick, key \in NoteKeys}

RECURSIVE NoteLists(_, _)
NoteLists(div, n) ==
    IF n = 0 THEN {<<>>}
    ELSE LET shorter == NoteLists(div, n - 1)
         IN  shorter \cup {Append(l, x) : l \in shorter, x \in RawNotes(div)}

\* ------------------------------------------------------------------------
\* State
\* ------------------------------------------------------------------------

VARIABLES
    bytes,              \* self.bytes
    itr,                \* self.itr
    header_length,      \* self.header_length
    format,             \* self.format
    tracks,             \* self.tracks
    division,           \* self.division
    division_type,      \* self.division_type
    tempo,              \* self.tempo
    running_status,     \* self.running_status
    running_status_set, \* self.running_status_set
    delta_time,         \* self.delta_time
    notes,              \* self.notes
    start_counter,      \* self.start_counter
    start,              \* read_midi_track_event: start
    length,             \* read_midi_track_event: length
    continue_flag,      \* read_midi_track_event: continue_flag
    song,               \* song.json: <<>> until written, then <<song_data>>
    sheet,              \* sheet.txt: <<>> until written, then the chords written
    pc,                 \* where the program is
    err,                \* the exception that ended the program, or "none"
    stored_index,       \* play_song: stored_index
    song_data,          \* play_song: song_data
    stop_event,         \* play_song: stop_event, TRUE when set
    play_pc,            \* where playback_thread is; "none": no thread yet
    note_info,          \* play_notes: note_info, <<>> before the first read
    loaded,             \* play_notes: the stored_index loaded by line 106
    sounding,           \* the symbols play_notes pressed last
    event_name,         \* event.name of the key event in on_key_event
    hook_pc,            \* where the key callback is
    reg                 \* rewind, skip: the stored_index loaded

hdrVars == <<header_length, format, tracks, division, division_type>>
trkVars == <<start, length, continue_flag>>
runVars == <<running_status, running_status_set>>
outVars == <<song, sheet>>

\* the converter
decVars == <<bytes, itr, hdrVars, tempo, runVars, delta_time, notes,
             start_counter, trkVars, outVars, pc, err>>

\* the player
thrVars == <<play_pc, note_info, loaded, sounding>>
hookVars == <<event_name, hook_pc, reg>>
plyVars == <<stored_index, song_data, stop_event, thrVars, hookVars>>

vars == <<decVars, plyVars>>

\* lines 24-29 of play_song.py: the globals before main runs
PlayerGlobals ==
    /\ stored_index = 0
    /\ song_data = <<>>
    /\ stop_event = FALSE
    /\ play_pc = "none"
    /\ note_info = <<>>
    /\ loaded = 0
    /\ sounding = <<>>
    /\ event_name = "none"
    /\ hook_pc = "idle"
    /\ reg = 0

\* MidiFile.__init__ up to the call of read_events
Constructed(file) ==
    /\ bytes = file
    /\ itr = 0
    /\ header_length = -1
    /\ format = -1
    /\ tracks = -1
    /\ division = -1
    /\ division_type = -1
    /\ tempo = DEFAULT_TEMPO
    /\ running_status = -1
    /\ running_status_set = FALSE
    /\ delta_time = 0
    /\ notes = <<>>
    /\ start_counter = <<0, 0, 0>>
    /\ start = 0
    /\ length = 0
    /\ continue_flag = TRUE
    /\ song = <<>>
    /\ sheet = <<>>
    /\ err = "none"
    /\ PlayerGlobals

Init ==
    /\ \E file \in Files : Constructed(file)
    /\ pc = "scan"

\* ------------------------------------------------------------------------
\* The program stops with an exception
\* ------------------------------------------------------------------------

Raise(e) == pc' = "crashed" /\ err' = e

\* ------------------------------------------------------------------------
\* read_events: the signature scanner
\* ------------------------------------------------------------------------

\* check_start_sequence
check_start_sequence(counter) ==
    \E i \in 1..Len(start_sequence) : Len(start_sequence[i]) = counter[i]

\* lines 233-237: each prefix counter steps on a matching byte, else resets
StepCounter(counter, byte) ==
    [i \in 1..Len(start_sequence) |->
        IF byte = start_sequence[i][counter[i] + 1] THEN counter[i] + 1 ELSE 0]

\* One iteration of the inner loop of read_events (lines 232-245), entered
\* through the outer loop (lines 228-230) when a counter is full.
Scan ==
    /\ pc = "scan"
    /\ itr + 1 < Len(bytes)
    /\ LET entered == IF check_start_sequence(start_counter)
                      THEN <<0, 0, 0>> ELSE start_counter
           counter == StepCounter(entered, At(bytes, itr))
       IN  /\ start_counter' = counter
           /\ itr' = IF itr + 1 < Len(bytes) THEN itr + 1 ELSE itr
           /\ pc' = IF counter[1] = 4 THEN "mthd"
                    ELSE IF counter[2] = 4 THEN "mtrk"
                    ELSE "scan"
    /\ UNCHANGED plyVars
    /\ UNCHANGED <<bytes, hdrVars, tempo, runVars, delta_time, notes,
                   trkVars, outVars, err>>

\* read_events returns: the loops of lines 228 and 232 end
ScanExit ==
    /\ pc = "scan"
    /\ ~(itr + 1 < Len(bytes))
    /\ pc' = "decoded"
    /\ UNCHANGED plyVars
    /\ UNCHANGED <<bytes, itr, hdrVars, tempo, runVars, delta_time, notes,
                   start_counter, trkVars, outVars, err>>

\* ------------------------------------------------------------------------
\* read_mthd
\* ------------------------------------------------------------------------

\* (div & 0x8000) >> 16
DivisionType(div) == (((div \div 32768) % 2) * 32768) \div 65536

\* div & 0x7FFF
DivisionTicks(div) == div % 32768

ReadMThd ==
    /\ pc = "mthd"
    /\ header_length' = get_int(bytes, itr, 4)
    /\ format' = get_int(bytes, itr + 4, 2)
    /\ tracks' = get_int(bytes, itr + 6, 2)
    /\ LET div == get_int(bytes, itr + 8, 2)
       IN  /\ division_type' = DivisionType(div)
           /\ division' = DivisionTicks(div)
    /\ itr' = get_int_next(bytes, get_int_next(bytes,
                  get_int_next(bytes, get_int_next(bytes, itr, 4), 2), 2), 2)
    /\ pc' = "scan"
    /\ UNCHANGED plyVars
    /\ UNCHANGED <<bytes, tempo, runVars, delta_time, notes, start_counter,
                   trkVars, outVars, err>>

\* ------------------------------------------------------------------------
\* read_mtrk and the loop of read_midi_track_event
\* ------------------------------------------------------------------------

\* read_mtrk, and lines 170-171 of read_midi_track_event; delta_time and the
\* running status, set once by __init__, are left as the last chunk left them
ReadMTrk ==
    /\ pc = "mtrk"
    /\ length' = get_int(bytes, itr, 4)
    /\ itr' = get_int_next(bytes, itr, 4)
    /\ start' = itr'
    /\ continue_flag' = TRUE
    /\ pc' = "track"
    /\ UNCHANGED plyVars
    /\ UNCHANGED <<bytes, hdrVars, tempo, runVars, delta_time, notes,
                   start_counter, outVars, err>>

\* the loop condition of line 172
TrackContinues == length > itr - start /\ continue_flag

\* lines 173-174: the delta-time of the next event
ReadDelta ==
    /\ pc = "track"
    /\ TrackContinues
    /\ LET r == read_length(bytes, itr)
       IN  /\ itr' = r.next
           /\ IF r.ok
              THEN delta_time' = delta_time + r.val /\ pc' = "event" /\ err' = err
              ELSE delta_time' = delta_time /\ Raise("IndexError")
    /\ UNCHANGED plyVars
    /\ UNCHANGED <<bytes, hdrVars, tempo, runVars, notes, start_counter,
                   trkVars, outVars>>

\* line 186: the cursor is set to the end of the chunk as declared
\* mutant: the cursor is set to the signature of the chunk
ChunkEndAtSignature(st, len, i) == st - 8

\* mutant: the cursor stays where the last event left it
ChunkEndWhereLeft(st, len, i) == i

ChunkEnd(st, len, i) == st + len

TrackEnd ==
    /\ pc = "track"
    /\ ~TrackContinues
    /\ itr' = ChunkEnd(start, length, itr)
    /\ pc' = "scan"
    /\ UNCHANGED plyVars
    /\ UNCHANGED <<bytes, hdrVars, tempo, runVars, delta_time, notes,
                   start_counter, trkVars, outVars, err>>

\* line 175 reads bytes[itr] with the cursor at or past the end
PeekFail ==
    /\ pc = "event"
    /\ ~InRange(bytes, itr)
    /\ Raise("IndexError")
    /\ UNCHANGED plyVars
    /\ UNCHANGED <<bytes, itr, hdrVars, tempo, runVars, delta_time, notes,
                   start_counter, trkVars, outVars>>

\* ------------------------------------------------------------------------
\* read_midi_meta_event
\* ------------------------------------------------------------------------

\* the cursor after the branch of lines 156-166, from the cursor after the
\* length field
MetaCursor(event_type, len, after) ==
    IF event_type = 47 THEN after + 2
    ELSE IF event_type \in TextTypes THEN after
    ELSE IF event_type = 81 THEN get_int_next(bytes, after, 3)
    ELSE after + len

\* lines 175-178 and read_midi_meta_event
MetaEvent ==
    /\ pc = "event"
    /\ InRange(bytes, itr)
    /\ At(bytes, itr) = 255
    /\ IF ~InRange(bytes, itr + 1)
       THEN /\ itr' = itr + 1
            /\ Raise("IndexError")
            /\ UNCHANGED <<tempo, continue_flag>>
       ELSE LET event_type == At(bytes, itr + 1)
                r == read_length(bytes, itr + 2)
            IN  IF ~r.ok
                THEN /\ itr' = r.next
                     /\ Raise("IndexError")
                     /\ UNCHANGED <<tempo, continue_flag>>
                ELSE /\ itr' = MetaCursor(event_type, r.val, r.next)
                     /\ tempo' = IF event_type = 81
                                 THEN TempoOf(get_int(bytes, r.next, 3))
                                 ELSE tempo
                     /\ continue_flag' = (event_type # 47)
                     /\ pc' = "track"
                     /\ err' = err
    /\ UNCHANGED plyVars
    /\ UNCHANGED <<bytes, hdrVars, runVars, delta_time, notes, start_counter,
                   start, length, outVars>>

\* lines 179-182: a system event clears the running status
SystemEvent ==
    /\ pc = "event"
    /\ InRange(bytes, itr)
    /\ At(bytes, itr) >= 240 /\ At(bytes, itr) <= 247
    /\ running_status_set' = FALSE
    /\ running_status' = -1
    /\ pc' = "track"
    /\ UNCHANGED plyVars
    /\ UNCHANGED <<bytes, itr, hdrVars, tempo, delta_time, notes,
                   start_counter, trkVars, outVars, err>>

\* ------------------------------------------------------------------------
\* read_voice_event
\* ------------------------------------------------------------------------

\* line 189: the stored status is reused
\* mutant: the stored status is never reused
NoRunningStatus(byte, rsset) == FALSE

UsesRunningStatus(byte, rsset) == byte < 128 /\ rsset

\* lines 189-198: the status of the event
VoiceStatus(byte, rs, rsset) ==
    IF UsesRunningStatus(byte, rsset) THEN rs ELSE byte

\* lines 189-198: the cursor at the first data byte
VoiceDataStart(byte, rsset, i) ==
    IF UsesRunningStatus(byte, rsset) THEN i ELSE i + 1

\* lines 202-217: data bytes consumed by an event of this status
VoiceDataBytes(event_type) ==
    IF event_type \div 16 = 9 THEN 2
    ELSE IF event_type \div 16 \notin TwoByteClasses THEN 1
    ELSE 2

\* line 212: the note appended
RawNote(dt, div, key) == [t |-> <<dt, div>>, s |-> <<SymbolOf(key)>>]

\* lines 210-212
\* mutant: a note-on of velocity 0 appends a note too
EmitNoteAlways(ns, dt, div, key, velocity) == Append(ns, RawNote(dt, div, key))

EmitNote(ns, dt, div, key, velocity) ==
    IF velocity > 0 THEN Append(ns, RawNote(dt, div, key)) ELSE ns

VoiceEvent ==
    /\ pc = "event"
    /\ InRange(bytes, itr)
    /\ At(bytes, itr) # 255
    /\ ~(At(bytes, itr) >= 240 /\ At(bytes, itr) <= 247)
    /\ LET byte == At(bytes, itr)
           event_type == VoiceStatus(byte, running_status, running_status_set)
           data == VoiceDataStart(byte, running_status_set, itr)
           stored == ~UsesRunningStatus(byte, running_status_set)
                     /\ byte >= 128 /\ byte <= 247
       IN  /\ running_status' = IF stored THEN byte ELSE running_status
           /\ running_status_set' = IF stored THEN TRUE ELSE running_status_set
           /\ IF event_type \div 16 = 9
              THEN IF ~InRange(bytes, data)
                   THEN itr' = data /\ notes' = notes /\ Raise("IndexError")
                   ELSE IF ~InRange(bytes, data + 1)
                   THEN itr' = data + 1 /\ notes' = notes /\ Raise("IndexError")
                   ELSE IF At(bytes, data + 1) > 0 /\ division = 0
                   THEN itr' = data + 2 /\ notes' = notes
                        /\ Raise("ZeroDivisionError")
                   ELSE /\ itr' = data + VoiceDataBytes(event_type)
                        /\ notes' = EmitNote(notes, delta_time, division,
                                             At(bytes, data), At(bytes, data + 1))
                        /\ pc' = "track"
                        /\ err' = err
              ELSE /\ itr' = data + VoiceDataBytes(event_type)
                   /\ notes' = notes
                   /\ pc' = "track"
                   /\ err' = err
    /\ UNCHANGED plyVars
    /\ UNCHANGED <<bytes, hdrVars, tempo, delta_time, start_counter,
                   trkVars, outVars>>

\* ------------------------------------------------------------------------
\* process_notes and generate_piano_sheet
\* ------------------------------------------------------------------------

\* lines 286-291: what is written for each chord
SheetOf(ns) ==
    [k \in 1..Len(ns) |->
        [symbols |-> ns[k].s, brackets |-> Len(ns[k].s) > 1, newline |-> k % 8 = 0]]

\* line 282 reads notes[0]
SheetFails(ns) == ns = <<>>

ProcessNotes ==
    /\ pc = "decoded"
    /\ notes' = Consolidate(notes)
    /\ song' = <<[tempo |-> tempo, notes |-> notes']>>
    /\ IF SheetFails(notes')
       THEN sheet' = sheet /\ Raise("IndexError")
       ELSE sheet' = <<SheetOf(notes')>> /\ pc' = "done" /\ err' = err
    /\ UNCHANGED plyVars
    /\ UNCHANGED <<bytes, itr, hdrVars, tempo, runVars, delta_time,
                   start_counter, trkVars>>

\* ------------------------------------------------------------------------
\* Specifications
\* ------------------------------------------------------------------------

\* MidiFile(file) followed by process_notes(), as main runs them
Next ==
    \/ Scan
    \/ ScanExit
    \/ ReadMThd
    \/ ReadMTrk
    \/ ReadDelta
    \/ TrackEnd
    \/ PeekFail
    \/ MetaEvent
    \/ SystemEvent
    \/ VoiceEvent
    \/ ProcessNotes

Spec == Init /\ [][Next]_vars

\* process_notes on a raw note list
InitNotes ==
    \E div \in {-1, 480} : \E l \in NoteLists(div, MaxNotes) :
        /\ bytes = <<>>
        /\ itr = 0
        /\ header_length = -1
        /\ format = -1
        /\ tracks = -1
        /\ division = div
        /\ division_type = IF div = -1 THEN -1 ELSE 0
        /\ tempo = DEFAULT_TEMPO
        /\ running_status = -1
        /\ running_status_set = FALSE
        /\ delta_time = 0
        /\ notes = l
        /\ start_counter = <<0, 0, 0>>
        /\ start = 0
        /\ length = 0
        /\ continue_flag = TRUE
        /\ song = <<>>
        /\ sheet = <<>>
        /\ err = "none"
        /\ pc = "decoded"
        /\ PlayerGlobals

NextNotes == ProcessNotes

SpecNotes == InitNotes /\ [][NextNotes]_vars

\* ------------------------------------------------------------------------
\* The player: song.json, parse_info
\* ------------------------------------------------------------------------

\* a consolidated chord list of n chords, one every half quarter note
SongOf(n) ==
    [k \in 1..n |-> [t |-> <<(k - 1) * 240, 480>>, s |-> <<VIRTUAL_PIANO_SCALE[k]>>]]

\* (next_note_time - note_time) * (60 / tempo), as numerator and denominator
NoteDuration(cur, next, bpm) ==
    <<(TimeNum(next) * TimeDen(cur) - TimeNum(cur) * TimeDen(next)) * 60,
      TimeDen(cur) * TimeDen(next) * bpm>>

\* parse_info: each chord with the time to the next one, the last with 1.0
parse_info(chords, bpm) ==
    [k \in 1..Len(chords) |->
        [d |-> IF k < Len(chords)
               THEN NoteDuration(chords[k].t, chords[k + 1].t, bpm)
               ELSE <<1, 1>>,
         s |-> chords[k].s]]

\* main of play_song.py up to keyboard.hook, on the song.json of a conversion
InitPlayer ==
    \E n \in 1..MaxSong :
        /\ bytes = <<>>
        /\ itr = 0
        /\ header_length = -1
        /\ format = -1
        /\ tracks = -1
        /\ division = 480
        /\ division_type = 0
        /\ tempo = DEFAULT_TEMPO
        /\ running_status = -1
        /\ running_status_set = FALSE
        /\ delta_time = 0
        /\ notes = SongOf(n)
        /\ start_counter = <<0, 0, 0>>
        /\ start = 0
        /\ length = 0
        /\ continue_flag = TRUE
        /\ song = <<[tempo |-> tempo, notes |-> notes]>>
        /\ sheet = <<SheetOf(notes)>>
        /\ err = "none"
        /\ pc = "done"
        /\ stored_index = 0
        /\ song_data = parse_info(song[1].notes, song[1].tempo)
        /\ stop_event = FALSE
        /\ play_pc = "none"
        /\ note_info = <<>>
        /\ loaded = 0
        /\ sounding = <<>>
        /\ event_name = "none"
        /\ hook_pc = "idle"
        /\ reg = 0

\* ------------------------------------------------------------------------
\* The player: the key callbacks, run by the thread of the keyboard hook
\* ------------------------------------------------------------------------

\* playback_thread is not None and playback_thread.is_alive()
ThreadAlive == play_pc \notin {"none", "ended", "raised"}

\* the key names on_key_event acts on
KeyNames == {"delete", "home", "end"}

\* the hook calls on_key_event with a key event
KeyEvent ==
    /\ event_name = "none"
    /\ \E name \in KeyNames : event_name' = name
    /\ hook_pc' = "dispatch"
    /\ UNCHANGED <<decVars, stored_index, song_data, stop_event, thrVars, reg>>

\* on_del_press: a thread is started unless one is alive
OnDelPress ==
    /\ event_name = "delete"
    /\ hook_pc = "dispatch"
    /\ IF ~ThreadAlive
       THEN /\ stop_event' = FALSE
            /\ play_pc' = "test"
       ELSE UNCHANGED <<stop_event, play_pc>>
    /\ event_name' = "none"
    /\ hook_pc' = "idle"
    /\ UNCHANGED <<decVars, stored_index, song_data, note_info, loaded,
                   sounding, reg>>

\* rewind, line 117: stored_index is loaded
RewindLoad ==
    /\ event_name = "home"
    /\ hook_pc = "dispatch"
    /\ reg' = stored_index
    /\ hook_pc' = "store"
    /\ UNCHANGED <<decVars, stored_index, song_data, stop_event, thrVars,
                   event_name>>

\* rewind, line 117: max(stored_index - 10, 0) is stored
RewindStore ==
    /\ event_name = "home"
    /\ hook_pc = "store"
    /\ stored_index' = IF reg - JUMP > 0 THEN reg - JUMP ELSE 0
    /\ event_name' = "none"
    /\ hook_pc' = "idle"
    /\ UNCHANGED <<decVars, song_data, stop_event, thrVars, reg>>

\* skip, line 123: stored_index is loaded
SkipLoad ==
    /\ event_name = "end"
    /\ hook_pc = "dispatch"
    /\ reg' = stored_index
    /\ hook_pc' = "store"
    /\ UNCHANGED <<decVars, stored_index, song_data, stop_event, thrVars,
                   event_name>>

\* skip, line 123: stored_index + 10 is stored
SkipStore ==
    /\ event_name = "end"
    /\ hook_pc = "store"
    /\ stored_index' = reg + JUMP
    /\ hook_pc' = "test"
    /\ UNCHANGED <<decVars, song_data, stop_event, thrVars, event_name, reg>>

\* skip, line 124
SkipTest ==
    /\ event_name = "end"
    /\ hook_pc = "test"
    /\ IF stored_index >= Len(song_data)
       THEN hook_pc' = "reset" /\ event_name' = event_name
       ELSE hook_pc' = "idle" /\ event_name' = "none"
    /\ UNCHANGED <<decVars, stored_index, song_data, stop_event, thrVars, reg>>

\* skip, line 125
SkipReset ==
    /\ event_name = "end"
    /\ hook_pc = "reset"
    /\ stored_index' = 0
    /\ event_name' = "none"
    /\ hook_pc' = "idle"
    /\ UNCHANGED <<decVars, song_data, stop_event, thrVars, reg>>

\* ------------------------------------------------------------------------
\* The player: play_notes, run by playback_thread
\* ------------------------------------------------------------------------

\* line 90: the loop condition
PlayTest ==
    /\ play_pc = "test"
    /\ play_pc' = IF stored_index < Len(song_data) /\ ~stop_event
                  THEN "read" ELSE "after"
    /\ UNCHANGED <<decVars, stored_index, song_data, stop_event, note_info,
                   loaded, sounding, hookVars>>

\* line 91: note_info = song_data[stored_index]; stored_index is never
\* negative, and an index past the end raises IndexError in the thread
PlayRead ==
    /\ play_pc = "read"
    /\ IF stored_index < Len(song_data)
       THEN /\ note_info' = song_data[stored_index + 1]
            /\ play_pc' = "press"
       ELSE /\ note_info' = note_info
            /\ play_pc' = "raised"
    /\ UNCHANGED <<decVars, stored_index, song_data, stop_event, loaded,
                   sounding, hookVars>>

\* "~": the symbol that makes a chord a release
RELEASE_MARK == 126

\* lines 92-104: the keys of the chord are pressed, or released after "~"
PlayPress ==
    /\ play_pc = "press"
    /\ IF note_info.s = <<>>
       THEN sounding' = sounding /\ play_pc' = "raised"
       ELSE /\ sounding' = IF Head(note_info.s) = RELEASE_MARK
                           THEN <<>> ELSE note_info.s
            /\ play_pc' = "load"
    /\ UNCHANGED <<decVars, stored_index, song_data, stop_event, note_info,
                   loaded, hookVars>>

\* line 106: stored_index is loaded
PlayLoad ==
    /\ play_pc = "load"
    /\ loaded' = stored_index
    /\ play_pc' = "store"
    /\ UNCHANGED <<decVars, stored_index, song_data, stop_event, note_info,
                   sounding, hookVars>>

\* line 106: stored_index + 1 is stored
PlayStore ==
    /\ play_pc = "store"
    /\ stored_index' = loaded + 1
    /\ play_pc' = "wait"
    /\ UNCHANGED <<decVars, song_data, stop_event, note_info, loaded,
                   sounding, hookVars>>

\* lines 107-108: stop_event.wait(delay) returns, at once when the delay is
\* 0 or the event is set
PlayWait ==
    /\ play_pc = "wait"
    /\ play_pc' = "test"
    /\ UNCHANGED <<decVars, stored_index, song_data, stop_event, note_info,
                   loaded, sounding, hookVars>>

\* line 110
PlayAfter ==
    /\ play_pc = "after"
    /\ play_pc' = IF stored_index >= Len(song_data) THEN "reset" ELSE "ended"
    /\ UNCHANGED <<decVars, stored_index, song_data, stop_event, note_info,
                   loaded, sounding, hookVars>>

\* line 111
PlayReset ==
    /\ play_pc = "reset"
    /\ stored_index' = 0
    /\ play_pc' = "ended"
    /\ UNCHANGED <<decVars, song_data, stop_event, note_info, loaded,
                   sounding, hookVars>>

\* the hook thread and the playback thread, interleaved
NextPlayer ==
    \/ KeyEvent
    \/ OnDelPress
    \/ RewindLoad
    \/ RewindStore
    \/ SkipLoad
    \/ SkipStore
    \/ SkipTest
    \/ SkipReset
    \/ PlayTest
    \/ PlayRead
    \/ PlayPress
    \/ PlayLoad
    \/ PlayStore
    \/ PlayWait
    \/ PlayAfter
    \/ PlayReset

SpecPlayer == InitPlayer /\ [][NextPlayer]_vars

\* ------------------------------------------------------------------------
\* Steps, as seen from their two states
\* ------------------------------------------------------------------------

\* a meta-event is about to be handled, its type byte is in the buffer
AtMetaEvent ==
    /\ pc = "event"
    /\ InRange(bytes, itr + 1)
    /\ At(bytes, itr) = 255

\* a voice event is about to be handled
AtVoiceEvent ==
    /\ pc = "event"
    /\ InRange(bytes, itr)
    /\ At(bytes, itr) # 255
    /\ ~(At(bytes, itr) >= 240 /\ At(bytes, itr) <= 247)

\* the event was handled and no exception was raised
EventHandled == pc' = "track"

\* the length field of the meta-event being handled
MetaLength == read_length(bytes, itr + 2)

\* ------------------------------------------------------------------------
\* C1: the end-to-end file
\* ------------------------------------------------------------------------

\* C1: the minimal file (format 0, 1 track, 480 ticks per quarter; Set Tempo
\* 500000, note-on key 60 velocity 100, delta 480 note-off key 60, End of
\* Track) decodes without an exception to tempo 120 and exactly one chord, at
\* time 0.0, whose symbols are the one symbol of key 60: the 25th character of
\* the scale, index 60 - 36.
C1_MinimalFileDecodes ==
    bytes = MinimalFile =>
        /\ pc # "crashed"
        /\ pc = "decoded" =>
              /\ tempo = 120
              /\ Len(notes) = 1
        /\ pc = "done" =>
              /\ tempo = 120
              /\ Len(notes) = 1
              /\ notes[1].t[1] = 0
              /\ notes[1].t[2] = 480
              /\ notes[1].s = <<VIRTUAL_PIANO_SCALE[60 - 36 + 1]>>
              /\ song = <<[tempo |-> 120, notes |-> notes]>>

\* the minimal file was decoded and consolidated
C1_MinimalFileDone == bytes = MinimalFile /\ pc = "done"

\* ------------------------------------------------------------------------
\* C2: running status
\* ------------------------------------------------------------------------

\* C2: with a note-on status 0x9n stored as the running status, an event whose
\* first byte has the high bit clear is decoded as a note-on of that status:
\* the stored status stays, no status byte is consumed and exactly the two
\* bytes key, velocity are, and a note for the key is appended at the current
\* time exactly when the velocity is above 0.
C2_RunningStatusNoteOn ==
    [][(/\ AtVoiceEvent
        /\ At(bytes, itr) < 128
        /\ running_status_set
        /\ running_status \div 16 = 9
        /\ EventHandled)
       => /\ itr' = itr + 2
          /\ running_status' = running_status
          /\ running_status_set'
          /\ notes' = IF At(bytes, itr + 1) > 0
                      THEN Append(notes,
                               [t |-> <<delta_time, division>>,
                                s |-> <<VIRTUAL_PIANO_SCALE[
                                          map_key_to_piano(At(bytes, itr)) + 1]>>])
                      ELSE notes]_vars

\* the data bytes 62, 100 after delta 0 were decoded under the running status
\* 0x90 and gave the second note
C2_RunningStatusUsed ==
    /\ pc = "track"
    /\ running_status = 144
    /\ Len(notes) = 2
    /\ itr >= 3
    /\ At(bytes, itr - 3) = 0
    /\ At(bytes, itr - 2) = 62
    /\ At(bytes, itr - 1) = 100
    /\ notes[2].s = <<VIRTUAL_PIANO_SCALE[62 - 36 + 1]>>

\* ------------------------------------------------------------------------
\* C3: tempo conversion
\* ------------------------------------------------------------------------

\* the payload of the Set Tempo event being handled
TempoPayload == get_int(bytes, MetaLength.next, 3)

\* C3: after a Set Tempo event with a 3-byte payload us > 0 the tempo is
\* round(60000000 / us).
C3_TempoFaithful ==
    [][(/\ AtMetaEvent
        /\ At(bytes, itr + 1) = 81
        /\ MetaLength.ok
        /\ InRange(bytes, MetaLength.next + 2)
        /\ TempoPayload > 0
        /\ EventHandled)
       => tempo' = RoundHalfEven(60000000, TempoPayload)]_vars

\* ------------------------------------------------------------------------
\* C4, C5: consolidation
\* ------------------------------------------------------------------------

\* process_notes runs
ConsolidationStep == pc = "decoded" /\ pc' # "decoded"

\* the symbols of the raw notes of ns at time t, in the order of the list
RECURSIVE SymbolsAt(_, _)
SymbolsAt(ns, t) ==
    IF ns = <<>> THEN <<>>
    ELSE IF TimeEq(Head(ns).t, t)
         THEN Head(ns).s \o SymbolsAt(Tail(ns), t)
         ELSE SymbolsAt(Tail(ns), t)

\* s without the repetitions of a symbol after its first occurrence
FirstOccurrences(s) ==
    LET keep == {i \in 1..Len(s) : \A j \in 1..(i - 1) : s[j] # s[i]}
        RECURSIVE Pick(_)
        Pick(i) == IF i > Len(s) THEN <<>>
                   ELSE IF i \in keep THEN <<s[i]>> \o Pick(i + 1)
                   ELSE Pick(i + 1)
    IN  Pick(1)

\* the symbols of the set S, the largest code point first
RECURSIVE Descending(_)
Descending(S) ==
    IF S = {} THEN <<>>
    ELSE LET m == CHOOSE x \in S : \A y \in S : y <= x
         IN  <<m>> \o Descending(S \ {m})

SymbolSet(s) == {s[i] : i \in 1..Len(s)}

\* every raw note's time has exactly one chord, and every chord a raw note
OneChordPerTime(raw, chords) ==
    /\ \A i \in 1..Len(raw) :
          Cardinality({k \in 1..Len(chords) : TimeEq(chords[k].t, raw[i].t)}) = 1
    /\ \A k \in 1..Len(chords) :
          \E i \in 1..Len(raw) : TimeEq(chords[k].t, raw[i].t)

\* C4 as stated: the raw notes of one time form one chord whose symbols are
\* their distinct symbols in emission order.
C4_ChordInEmissionOrder ==
    [][ConsolidationStep =>
          /\ OneChordPerTime(notes, notes')
          /\ \A k \in 1..Len(notes') :
                notes'[k].s = FirstOccurrences(SymbolsAt(notes, notes'[k].t))]_vars

\* C4 as amended: the raw notes of one time form one chord whose symbols are
\* their distinct symbols, the largest code point first.
C4_ChordInDescendingOrder ==
    [][ConsolidationStep =>
          /\ OneChordPerTime(notes, notes')
          /\ \A k \in 1..Len(notes') :
                notes'[k].s = Descending(SymbolSet(SymbolsAt(notes, notes'[k].t)))]_vars

\* a consolidated list with a chord of three symbols
C4_ChordMerged ==
    /\ pc = "done"
    /\ \E k \in 1..Len(notes) : Len(notes[k].s) = 3

\* C5: after consolidation the chord times are strictly ascending and every
\* chord has a non-empty symbol string of pairwise distinct characters.
C5_ChordsAscendingDistinct ==
    song # <<>> =>
        LET chords == song[1].notes
        IN  /\ chords = notes
            /\ \A k \in 1..(Len(chords) - 1) :
                  TimeLess(chords[k].t, chords[k + 1].t)
            /\ \A k \in 1..Len(chords) :
                  /\ chords[k].s # <<>>
                  /\ \A i, j \in 1..Len(chords[k].s) :
                        i # j => chords[k].s[i] # chords[k].s[j]

\* a consolidated list of two chords, the first of two symbols
C5_TwoChords ==
    /\ pc = "done"
    /\ Len(notes) = 2
    /\ Len(notes[1].s) = 2
    /\ song = <<[tempo |-> tempo, notes |-> notes]>>

\* ------------------------------------------------------------------------
\* C6 - C10: cursor, meta-events, track state, chunk boundary, empty song
\* ------------------------------------------------------------------------

\* C6: the cursor stays inside the buffer, 0 <= itr <= len(bytes), so no
\* fixed-width read returns a value with the cursor advanced past the end.
C6_CursorInBuffer == 0 <= itr /\ itr <= Len(bytes)

\* C7: after a meta-event of a type other than End of Track the cursor is
\* exactly `length` bytes past the end of the event's length field.
C7_MetaCursorPastPayload ==
    [][(/\ AtMetaEvent
        /\ At(bytes, itr + 1) # 47
        /\ EventHandled)
       => itr' = MetaLength.next + MetaLength.val]_vars

\* C8: decoding of each track chunk begins with the cumulative tick count 0
\* and no running status.
C8_TrackStartsFresh ==
    [][(pc = "mtrk" /\ pc' = "track")
       => (delta_time' = 0 /\ ~running_status_set')]_vars

\* C9: when the event loop of a track chunk ends without an exception, the
\* cursor is at payload_start + declared_length, whatever the events consumed,
\* and the scanner goes on from there; payload_start is the position after
\* the 4-byte length that follows the signature MTrk, declared_length the
\* value of those 4 bytes.
C9_TrackEndsAtBoundary ==
    [][(pc = "track" /\ ~TrackContinues)
       => /\ start >= 8
          /\ SubSeq(bytes, start - 7, start - 4) = start_sequence[2]
          /\ itr' = start + get_int(bytes, start - 4, 4)
          /\ pc' = "scan"]_vars

\* a track chunk ended by End of Track, the cursor at its declared end
C9_TrackEnded ==
    /\ pc = "scan"
    /\ start >= 8
    /\ ~continue_flag
    /\ itr = start + length

\* C10: when decoding ends with no note, process_notes completes without an
\* exception and song.json holds the tempo and an empty note list.
C10_EmptySongCompletes ==
    [][(pc = "decoded" /\ notes = <<>>)
       => /\ pc' = "done"
          /\ err' = "none"
          /\ song' = <<[tempo |-> tempo, notes |-> <<>>]>>]_vars

\* ------------------------------------------------------------------------
\* C11: the note list during decoding
\* ------------------------------------------------------------------------

\* the program is in read_events
Decoding == pc \in {"scan", "mthd", "mtrk", "track", "event"}

\* the status of the voice event being handled: the stored one when the
\* first byte is a data byte and a status is stored
EventStatus ==
    IF At(bytes, itr) < 128 /\ running_status_set
    THEN running_status ELSE At(bytes, itr)

\* the position of the first data byte of the voice event being handled
EventData ==
    IF At(bytes, itr) < 128 /\ running_status_set THEN itr ELSE itr + 1

\* a note-on with a velocity above 0 is being handled
AtSoundingNoteOn ==
    /\ AtVoiceEvent
    /\ EventStatus \div 16 = 9
    /\ InRange(bytes, EventData + 1)
    /\ At(bytes, EventData + 1) > 0

\* C11: while decoding, the note list changes only by appending: a note-on
\* (class 0x9) with velocity above 0 that is handled appends exactly one raw
\* note, of the current time and the symbol of its key, and every other step
\* (note-on with velocity 0, the voice classes 0x8, 0xA - 0xE, meta-events,
\* system events, the scanner and the chunk readers) leaves it unchanged.
C11_NotesOnlyAppended ==
    [][Decoding =>
          IF AtSoundingNoteOn /\ EventHandled
          THEN notes' = Append(notes,
                            [t |-> <<delta_time, division>>,
                             s |-> <<VIRTUAL_PIANO_SCALE[
                                       map_key_to_piano(At(bytes, EventData)) + 1]>>])
          ELSE notes' = notes]_vars

\* a note-on of velocity 100, then a note-on of velocity 0 under the running
\* status, were handled and the list holds the one note
C11_ZeroVelocityHandled ==
    /\ pc = "track"
    /\ running_status = 144
    /\ Len(notes) = 1
    /\ itr >= 7 /\ itr <= Len(bytes)
    /\ SubSeq(bytes, itr - 6, itr) = EvNoteOn \o EvRunZero

\* ------------------------------------------------------------------------
\* C12: the division field of the header
\* ------------------------------------------------------------------------

\* the division field of the header about to be read
DivisionRaw == get_int(bytes, itr + 8, 2)

\* C12: read_mthd classifies the division field by its top bit: with bit 15
\* clear the type is TicksPerQuarterNote and the ticks per quarter are the
\* field & 0x7FFF; with bit 15 set the type is SMPTE, a value other than the
\* TicksPerQuarterNote one.
C12_DivisionClassified ==
    [][(pc = "mthd" /\ InRange(bytes, itr + 9))
       => IF DivisionRaw < 32768
          THEN /\ division_type' = TicksPerQuarterNote
               /\ division' = DivisionRaw % 32768
          ELSE division_type' # TicksPerQuarterNote]_vars

\* ------------------------------------------------------------------------
\* C13: the index of a key in the scale
\* ------------------------------------------------------------------------

\* a note-on is about to be handled and its key byte is a 7-bit value
AtNoteOnKey ==
    /\ AtVoiceEvent
    /\ EventStatus \div 16 = 9
    /\ InRange(bytes, EventData)
    /\ At(bytes, EventData) \in 0..127

\* C13: for every 7-bit key of a note-on, map_key_to_piano(key) is an index
\* in [0, L), L the length of VIRTUAL_PIANO_SCALE, so the symbol lookup is
\* in range.
C13_KeyIndexInRange ==
    AtNoteOnKey =>
        map_key_to_piano(At(bytes, EventData)) \in 0..(Len(VIRTUAL_PIANO_SCALE) - 1)

\* the note-on of key 98, whose shifted index 62 is the length of the scale,
\* was handled and gave the symbol of index 50
C13_FoldedKeyMapped ==
    /\ pc = "track"
    /\ Len(notes) = 1
    /\ itr >= 3 /\ itr <= Len(bytes)
    /\ At(bytes, itr - 2) = 98
    /\ At(bytes, itr - 3) = 144
    /\ notes[1].s = <<VIRTUAL_PIANO_SCALE[50 + 1]>>

\* ------------------------------------------------------------------------
\* C14: variable-length quantities
\* ------------------------------------------------------------------------

\* the bytes at the cursor are the encoding of n
EncodedAtCursor(n) ==
    /\ itr + Len(VlqEncode(n)) <= Len(bytes)
    /\ SubSeq(bytes, itr + 1, itr + Len(VlqEncode(n))) = VlqEncode(n)

\* C14: when the delta-time at the cursor is the standard encoding of n, for
\* n up to 0x0FFFFFFF, read_length returns n (the tick count grows by n) and
\* the cursor advances by exactly the encoded bytes.
C14_VlqRoundTrip ==
    [][\A n \in VlqValues :
          (pc = "track" /\ TrackContinues /\ EncodedAtCursor(n))
          => /\ pc' = "event"
             /\ delta_time' = delta_time + n
             /\ itr' = itr + Len(VlqEncode(n))]_vars

\* the 4-byte delta-time FF FF FF 7F was read as 0x0FFFFFFF
C14_LargestDecoded ==
    /\ pc = "event"
    /\ delta_time = 268435455
    /\ itr = start + 4
    /\ SubSeq(bytes, start + 1, start + 4) = <<255, 255, 255, 127>>

\* ------------------------------------------------------------------------
\* C15: consolidation of a consolidated list
\* ------------------------------------------------------------------------

\* C15: consolidation is idempotent: the sort, merge and de-duplication of
\* process_notes, run on the chord list process_notes wrote, give that list.
C15_ConsolidationIdempotent ==
    song # <<>> => Consolidate(song[1].notes) = song[1].notes

\* a consolidated list of two chords, the second of two symbols
C15_ConsolidatedTwice ==
    /\ pc = "done"
    /\ Len(notes) = 2
    /\ Len(notes[2].s) = 2
    /\ Consolidate(notes) = notes

\* ------------------------------------------------------------------------
\* C17: reads and the declared end of the chunk
\* ------------------------------------------------------------------------

\* the index after the last byte the step reads of the event: the delta-time
\* for a step of the loop head; the status byte, and with it the key and
\* velocity of a note-on, or the type, length field and tempo payload of a
\* meta-event, for a step that handles the event
ReadLimit ==
    IF pc = "track" THEN read_length(bytes, itr).next
    ELSE IF AtMetaEvent /\ MetaLength.ok
         THEN IF At(bytes, itr + 1) = 81
              THEN MetaLength.next + 3 ELSE MetaLength.next
    ELSE IF AtVoiceEvent /\ EventStatus \div 16 = 9
         THEN EventData + 2
    ELSE itr + 1

\* C17: while a track chunk of payload start s and declared length n is
\* decoded, no byte at an index >= s + n is read as part of an event, and no
\* note is emitted from bytes outside [s, s + n).
C17_ReadsInsideChunk ==
    [][((pc = "track" /\ TrackContinues) \/ pc = "event")
       => /\ pc' \in {"track", "event"} => ReadLimit <= start + length
          /\ notes' # notes => EventData + 2 <= start + length]_vars

\* ------------------------------------------------------------------------
\* C18: signatures after stray bytes
\* ------------------------------------------------------------------------

\* the scanner is at a byte, no chunk was handled yet (every byte before the
\* cursor was scanned), and the byte is the last of the four bytes sig
ScansLastOf(sig) ==
    /\ pc = "scan"
    /\ itr + 1 < Len(bytes)
    /\ header_length = -1
    /\ start = 0
    /\ itr >= 3
    /\ SubSeq(bytes, itr - 2, itr + 1) = sig

\* C18: the scanner recognizes a signature whatever stray bytes precede it:
\* when the four most recently scanned bytes are MThd (MTrk), the header
\* (track) handler is called with the cursor after the signature, and the
\* scanner step after a handler starts from prefix counters that are all 0.
C18_SignatureRecognized ==
    [][/\ ScansLastOf(start_sequence[1]) => (pc' = "mthd" /\ itr' = itr + 1)
       /\ ScansLastOf(start_sequence[2]) => (pc' = "mtrk" /\ itr' = itr + 1)
       /\ (pc = "scan" /\ pc' = "scan" /\ check_start_sequence(start_counter))
             => start_counter' = StepCounter(<<0, 0, 0>>, At(bytes, itr))]_vars

\* ------------------------------------------------------------------------
\* C19: termination of decoding
\* ------------------------------------------------------------------------

\* read_events runs on as long as it has a step to take: the program is one
\* thread that nothing suspends, so whichever step of the decoder is the next
\* one is taken
Fairness ==
    /\ WF_vars(Scan)
    /\ WF_vars(ScanExit)
    /\ WF_vars(ReadMThd)
    /\ WF_vars(ReadMTrk)
    /\ WF_vars(ReadDelta)
    /\ WF_vars(TrackEnd)
    /\ WF_vars(PeekFail)
    /\ WF_vars(MetaEvent)
    /\ WF_vars(SystemEvent)
    /\ WF_vars(VoiceEvent)

InitLoops ==
    /\ \E file \in LoopFiles : Constructed(file)
    /\ pc = "scan"

FairSpec == InitLoops /\ [][Next]_vars /\ Fairness

\* read_events returned, or an exception ended it
DecodingEnded == pc \in {"decoded", "done", "crashed"}

\* every iteration of the scanner moves the cursor one byte on, the chunk
\* readers move it on, and every iteration of the track event loop moves it
\* on: the delta-time takes at least one byte and the handler of the event
\* never moves it back
IterationsAdvance ==
    /\ (pc = "scan" /\ pc' # "decoded") => itr' = itr + 1
    /\ pc \in {"mthd", "mtrk"} => itr' > itr
    /\ (pc = "track" /\ pc' = "event") => itr' > itr
    /\ (pc = "event" /\ pc' = "track") => itr' >= itr

\* C19 as stated: decoding terminates on every finite buffer, every scanner
\* iteration and every iteration of the track event loop advancing the
\* cursor, and the cursor never moves backwards.
C19_CursorNeverBack ==
    /\ <>DecodingEnded
    /\ [][Decoding => (IterationsAdvance /\ itr' >= itr)]_vars

\* C19 as amended: decoding terminates on every finite buffer, every scanner
\* iteration and every iteration of the track event loop advancing the
\* cursor; the cursor moves backwards only where the end of a track chunk
\* sets it to the declared end of the chunk, never before the payload start.
C19_DecodingTerminates ==
    /\ <>DecodingEnded
    /\ [][Decoding =>
            /\ IterationsAdvance
            /\ itr' < itr => (pc = "track" /\ pc' = "scan" /\ itr' >= start)]_vars

\* decoding ended after the end of a track chunk, whose End of Track had
\* left the cursor two bytes further, set the cursor to its declared end
C19_EndedAfterSeekBack ==
    /\ pc = "decoded"
    /\ ~continue_flag
    /\ start >= 8
    /\ length > 0
    /\ itr = start + length

\* ------------------------------------------------------------------------
\* C16: the DELETE key
\* ------------------------------------------------------------------------

\* on_key_event returns from the callback of DELETE
DeleteHandled == event_name = "delete" /\ event_name' = "none"

\* C16: DELETE is play/pause. Handled while the playback thread is running,
\* it pauses playback: stop_event is set, which alone makes the loop of
\* play_notes stop pressing keys and advancing stored_index before the song
\* is over. Handled while no playback is running, it starts the thread, which
\* plays from stored_index.
C16_DeleteTogglesPlayback ==
    [][DeleteHandled =>
          IF ThreadAlive
          THEN stop_event'
          ELSE /\ ThreadAlive'
               /\ play_pc' = "test"
               /\ ~stop_event'
               /\ stored_index' = stored_index]_vars

\* ------------------------------------------------------------------------
\* C20: the index play_notes reads at
\* ------------------------------------------------------------------------

\* line 91 runs
ReadsSongData == play_pc = "read" /\ play_pc' # "read"

\* C20: in every interleaving of the playback thread with the callbacks
\* rewind and skip, play_notes reads song_data[stored_index] only when
\* 0 <= stored_index < len(song_data).
C20_ReadInRange ==
    [][ReadsSongData =>
          (0 <= stored_index /\ stored_index < Len(song_data))]_vars

====
